---- MODULE Spec2Model ----
(***************************************************************************)
(* Model of src/main.py: the /audio websocket handler (audio_stream), the  *)
(* turn coroutine it spawns per final transcript (process_transcript), the *)
(* recognition callback (on_transcript) and the upstream wrapper           *)
(* generate_ai_reply.                                                      *)
(*                                                                         *)
(* Scheduling: everything runs on one asyncio event loop, so code between  *)
(* two suspension points is one atomic step.  requests.post and the        *)
(* Deepgram speak call are blocking calls without a suspension point; the  *)
(* only places where a turn yields are websocket.send_json / asyncio.sleep *)
(* and the only places where the receive loop yields are                   *)
(* websocket.receive and asyncio.sleep(0.01).                              *)
(***************************************************************************)
EXTENDS Integers, Sequences, FiniteSets, TLC

(* ------------------------------ bounds --------------------------------- *)
\* The number of inputs a session takes from its environment: messages
\* received on the call leg, transcripts that start a turn, and chunks the
\* synthesis engine yields.
MaxInputs == 4

\* The length of the base64 texts the codec specification enumerates.
MaxPayloadLen == 4

Sessions == {1, 2}

(* --------------------------- base64 (stdlib) --------------------------- *)
\* A base64 text is a sequence of symbols: 0..63 are the alphabet's digits,
\* Pad is "=", Junk is any character outside the alphabet (e.g. "\n").
Pad == 64
Junk == 65

\* An encoder that leaves the "=" padding out.
RECURSIVE B64EncodeNoPad(_)
B64EncodeNoPad(bytes) ==
    IF Len(bytes) = 0 THEN <<>>
    ELSE IF Len(bytes) = 1 THEN
        << bytes[1] \div 4, (bytes[1] % 4) * 16 >>
    ELSE IF Len(bytes) = 2 THEN
        << bytes[1] \div 4,
           (bytes[1] % 4) * 16 + (bytes[2] \div 16),
           (bytes[2] % 16) * 4 >>
    ELSE
        << bytes[1] \div 4,
           (bytes[1] % 4) * 16 + (bytes[2] \div 16),
           (bytes[2] % 16) * 4 + (bytes[3] \div 64),
           bytes[3] % 64 >>
        \o B64EncodeNoPad(SubSeq(bytes, 4, Len(bytes)))

RECURSIVE B64Encode(_)
B64Encode(bytes) ==
    IF Len(bytes) = 0 THEN <<>>
    ELSE IF Len(bytes) = 1 THEN
        << bytes[1] \div 4, (bytes[1] % 4) * 16, Pad, Pad >>
    ELSE IF Len(bytes) = 2 THEN
        << bytes[1] \div 4,
           (bytes[1] % 4) * 16 + (bytes[2] \div 16),
           (bytes[2] % 16) * 4,
           Pad >>
    ELSE
        << bytes[1] \div 4,
           (bytes[1] % 4) * 16 + (bytes[2] \div 16),
           (bytes[2] % 16) * 4 + (bytes[3] \div 64),
           bytes[3] % 64 >>
        \o B64Encode(SubSeq(bytes, 4, Len(bytes)))

\* binascii.a2b_base64 in its default (non-strict) mode: characters outside
\* the alphabet are skipped, a complete pad sequence ends the parse, and a
\* dangling quad is an error.
RECURSIVE A2B(_, _, _, _, _, _)
A2B(s, i, quad, left, pads, acc) ==
    IF i > Len(s) THEN [ok |-> quad = 0, bytes |-> acc]
    ELSE IF s[i] = Pad THEN
        IF quad >= 2 /\ quad + pads + 1 >= 4
        THEN [ok |-> TRUE, bytes |-> acc]
        ELSE A2B(s, i + 1, quad, left, pads + 1, acc)
    ELSE IF s[i] = Junk THEN A2B(s, i + 1, quad, left, pads, acc)
    ELSE IF quad = 0 THEN A2B(s, i + 1, 1, s[i], 0, acc)
    ELSE IF quad = 1 THEN
        A2B(s, i + 1, 2, s[i] % 16, 0, Append(acc, left * 4 + (s[i] \div 16)))
    ELSE IF quad = 2 THEN
        A2B(s, i + 1, 3, s[i] % 4, 0, Append(acc, left * 16 + (s[i] \div 4)))
    ELSE A2B(s, i + 1, 0, 0, 0, Append(acc, left * 64 + s[i]))

B64Decode(s) == A2B(s, 1, 0, 0, 0, <<>>)

(* ------------------------------- texts --------------------------------- *)
\* A text is a sequence of tokens; " " is a whitespace character, any other
\* token is a run of non-whitespace characters.
RECURSIVE LStrip(_)
LStrip(t) ==
    IF t # <<>> /\ t[1] = " " THEN LStrip(Tail(t)) ELSE t

RECURSIVE RStrip(_)
RStrip(t) ==
    IF t # <<>> /\ t[Len(t)] = " " THEN RStrip(SubSeq(t, 1, Len(t) - 1)) ELSE t

\* str.strip()
Strip(t) == RStrip(LStrip(t))

\* len(str.split())
WordCount(t) ==
    Cardinality({i \in 1..Len(t) : t[i] # " " /\ (i = 1 \/ t[i - 1] = " ")})

Transcripts == { <<>>, <<" ">>, <<" ", "hi", " ">> }

Fallback ==
    << "Sorry,", " ", "I", " ", "had", " ", "trouble", " ",
       "processing", " ", "that." >>

Reply1 == << "It's", " ", "3", " ", "PM." >>

NoReply == << "<none>" >>

(* ------------------------- generate_ai_reply --------------------------- *)
\* What requests.post does for one call: it returns a response with a
\* status code and a body, or it raises (timeout after 30 s, or a
\* network-level failure).
Upstream ==
    { [kind |-> "response", status |-> 200, content |-> Reply1],
      [kind |-> "response", status |-> 500, content |-> NoReply],
      [kind |-> "timeout", status |-> 0, content |-> NoReply],
      [kind |-> "connerror", status |-> 0, content |-> NoReply] }

generate_ai_reply(text, up) ==
    IF up.kind # "response" THEN [raised |-> TRUE, value |-> NoReply]
    ELSE IF up.status # 200 THEN [raised |-> FALSE, value |-> Fallback]
    ELSE [raised |-> FALSE, value |-> up.content]

(* ------------------------- synthesis engine ---------------------------- *)
\* The k-th chunk the speak stream yields (contents differ by position, and
\* lengths run through 1, 2, 3 bytes so that every base64 padding occurs).
ChunkOf(k) == [i \in 1..(((k - 1) % 3) + 1) |-> (k * 37 + i * 50) % 256]

\* What the next iteration of "for chunk in stream" can bring.
SynthSteps == {"chunk", "end", "error"}

(* --------------------------- inbound frames ---------------------------- *)
NoPayload == << Junk, Junk, Junk >>

Audio0 == << 0, 0, 0 >>
Audio1 == << 7, 130 >>

InAudio == {Audio0, Audio1}

\* "A" alone: one data character more than a multiple of four.
BadPayload == << 0 >>

\* A textual frame: whether json.loads accepts it, whether the value is an
\* object, its "event" member and its media.payload member.
Media(p) == [json |-> TRUE, event |-> "media", haspayload |-> TRUE, payload |-> p]
MediaNoPayload == [json |-> TRUE, event |-> "media", haspayload |-> FALSE, payload |-> NoPayload]
StopFrame == [json |-> TRUE, event |-> "stop", haspayload |-> FALSE, payload |-> NoPayload]
OtherFrame == [json |-> TRUE, event |-> "mark", haspayload |-> FALSE, payload |-> NoPayload]
NotJson == [json |-> FALSE, event |-> "", haspayload |-> FALSE, payload |-> NoPayload]

GoodMedia == { Media(B64Encode(a)) : a \in InAudio }
MalformedFrames == { NotJson, MediaNoPayload, Media(BadPayload) }

\* An ASGI message as websocket.receive returns it: "text" and "bytes" are
\* optional members (a sequence of length 0 or 1 here).
TextMsg(f) == [type |-> "websocket.receive", text |-> << f >>, bytes |-> <<>>]
BytesMsg(b) == [type |-> "websocket.receive", text |-> <<>>, bytes |-> << b >>]
DisconnectMsg == [type |-> "websocket.disconnect", text |-> <<>>, bytes |-> <<>>]

\* data = message.get("text") or message.get("bytes"), with its Python type
DataOf(msg) ==
    IF msg.text # <<>> THEN [isa |-> "str", str |-> msg.text[1], raw |-> <<>>]
    ELSE IF msg.bytes # <<>> THEN [isa |-> "bytes", str |-> NotJson, raw |-> msg.bytes[1]]
    ELSE [isa |-> "NoneType", str |-> NotJson, raw |-> <<>>]

LoopBodyNoBinary(msg) ==
    LET data == DataOf(msg) IN
    IF data.isa = "str" THEN
        IF ~data.str.json THEN [exit |-> "raise", sends |-> <<>>]
        ELSE IF data.str.event = "media" THEN
            IF ~data.str.haspayload THEN [exit |-> "raise", sends |-> <<>>]
            ELSE IF ~B64Decode(data.str.payload).ok THEN [exit |-> "raise", sends |-> <<>>]
            ELSE [exit |-> "continue", sends |-> << B64Decode(data.str.payload).bytes >>]
        ELSE IF data.str.event = "stop" THEN [exit |-> "break", sends |-> <<>>]
        ELSE [exit |-> "continue", sends |-> <<>>]
    ELSE [exit |-> "continue", sends |-> <<>>]

LoopBodyStrictEvents(msg) ==
    LET data == DataOf(msg) IN
    IF data.isa = "str" THEN
        IF ~data.str.json THEN [exit |-> "raise", sends |-> <<>>]
        ELSE IF data.str.event = "media" THEN
            IF ~data.str.haspayload THEN [exit |-> "raise", sends |-> <<>>]
            ELSE IF ~B64Decode(data.str.payload).ok THEN [exit |-> "raise", sends |-> <<>>]
            ELSE [exit |-> "continue", sends |-> << B64Decode(data.str.payload).bytes >>]
        ELSE IF data.str.event = "stop" THEN [exit |-> "break", sends |-> <<>>]
        ELSE [exit |-> "raise", sends |-> <<>>]
    ELSE IF data.isa = "bytes" THEN [exit |-> "continue", sends |-> << data.raw >>]
    ELSE [exit |-> "continue", sends |-> <<>>]

LoopBodyNoBreak(msg) ==
    LET data == DataOf(msg) IN
    IF data.isa = "str" THEN
        IF ~data.str.json THEN [exit |-> "raise", sends |-> <<>>]
        ELSE IF data.str.event = "media" THEN
            IF ~data.str.haspayload THEN [exit |-> "raise", sends |-> <<>>]
            ELSE IF ~B64Decode(data.str.payload).ok THEN [exit |-> "raise", sends |-> <<>>]
            ELSE [exit |-> "continue", sends |-> << B64Decode(data.str.payload).bytes >>]
        ELSE [exit |-> "continue", sends |-> <<>>]
    ELSE IF data.isa = "bytes" THEN [exit |-> "continue", sends |-> << data.raw >>]
    ELSE [exit |-> "continue", sends |-> <<>>]

\* One pass of the body of "while True" after websocket.receive returned
\* msg: what is sent to the recognition socket and how the pass ends
\* ("continue" reaches the sleep, "break" leaves the loop, "raise" is an
\* exception other than WebSocketDisconnect: json.JSONDecodeError, KeyError,
\* binascii.Error).
LoopBody(msg) ==
    LET data == DataOf(msg) IN
    IF data.isa = "str" THEN
        IF ~data.str.json THEN [exit |-> "raise", sends |-> <<>>]
        ELSE IF data.str.event = "media" THEN
            IF ~data.str.haspayload THEN [exit |-> "raise", sends |-> <<>>]
            ELSE IF ~B64Decode(data.str.payload).ok THEN [exit |-> "raise", sends |-> <<>>]
            ELSE [exit |-> "continue", sends |-> << B64Decode(data.str.payload).bytes >>]
        ELSE IF data.str.event = "stop" THEN [exit |-> "break", sends |-> <<>>]
        ELSE [exit |-> "continue", sends |-> <<>>]
    ELSE IF data.isa = "bytes" THEN [exit |-> "continue", sends |-> << data.raw >>]
    ELSE [exit |-> "continue", sends |-> <<>>]

\* The audio an inbound message carries, by the wire protocol (none for
\* control frames and for frames that cannot be decoded).
AudioOf(msg) ==
    IF msg.bytes # <<>> THEN msg.bytes
    ELSE IF msg.text # <<>> /\ msg.text[1].json /\ msg.text[1].event = "media"
            /\ msg.text[1].haspayload /\ B64Decode(msg.text[1].payload).ok
    THEN << B64Decode(msg.text[1].payload).bytes >>
    ELSE <<>>

KindOf(msg) ==
    IF msg.type = "websocket.disconnect" THEN "disconnect"
    ELSE IF msg.bytes # <<>> THEN "binary"
    ELSE IF msg.text[1] \in MalformedFrames THEN "malformed"
    ELSE msg.text[1].event

(* ------------------------------- state --------------------------------- *)
VARIABLES
    live,       \* the sessions the telephony side opens
    pc,         \* audio_stream: "idle", "recv", "sleep", "done", "crashed"
    leg,        \* the websocket: "none", "open", "peer_gone", "closed"
    dg,         \* dg_socket: "new", "started", "finished"
    finishes,   \* number of dg_socket.finish() calls
    dgSent,     \* the buffers passed to dg_socket.send, in order
    rxAudio,    \* the audio carried by the messages received, in order
    lastMsg,    \* kind of the message the last websocket.receive returned
    nRecv,      \* number of messages received
    turns,      \* the process_transcript tasks created, in creation order
    out,        \* the frames sent with websocket.send_json, in order
    dgErrors,   \* number of Error events the recognition engine delivered
    codec,      \* one media payload taken through decode and encode
    helper      \* one call of the module-level process_transcript

vars == << live, pc, leg, dg, finishes, dgSent, rxAudio, lastMsg, nRecv, turns, out,
           dgErrors, codec, helper >>

RECURSIVE ChunksMade(_)
ChunksMade(ts) ==
    IF ts = <<>> THEN 0 ELSE Len(ts[1].made) + ChunksMade(Tail(ts))

Load(s) == nRecv[s] + Len(turns[s]) + ChunksMade(turns[s]) + dgErrors[s]

\* The inputs all sessions took so far, and how many they may take: MaxInputs
\* for one session, one less when two sessions run side by side.
Inputs == Load(1) + Load(2)
Budget == MaxInputs + 1 - Cardinality(live)

Running(s) == pc[s] \in {"recv", "sleep"}
Closed(s) == pc[s] \in {"done", "crashed"}

InFlight(r) == r.pc \in {"pacing", "quiet"}
Ended(r) == r.pc \in {"done", "raised"}

CodecIdle == [pc |-> "idle", payload |-> <<>>, audio |-> <<>>, frame |-> NotJson]

HelperIdle ==
    [pc |-> "idle", text |-> <<>>,
     up |-> [kind |-> "none", status |-> 0, content |-> NoReply],
     chunks |-> <<>>, fails |-> FALSE,
     legOpen |-> FALSE, reply |-> NoReply, audio |-> <<>>, frames |-> <<>>,
     escaped |-> FALSE]

SessionsInit(ss) ==
    /\ live = ss
    /\ pc = [s \in Sessions |-> "idle"]
    /\ leg = [s \in Sessions |-> "none"]
    /\ dg = [s \in Sessions |-> "new"]
    /\ finishes = [s \in Sessions |-> 0]
    /\ dgSent = [s \in Sessions |-> <<>>]
    /\ rxAudio = [s \in Sessions |-> <<>>]
    /\ lastMsg = [s \in Sessions |-> "none"]
    /\ nRecv = [s \in Sessions |-> 0]
    /\ turns = [s \in Sessions |-> <<>>]
    /\ out = [s \in Sessions |-> <<>>]
    /\ dgErrors = [s \in Sessions |-> 0]

InitFor(ss) ==
    /\ SessionsInit(ss)
    /\ codec = CodecIdle
    /\ helper = HelperIdle

Init == InitFor({1})

(* ---------------------------- audio_stream ----------------------------- *)
\* websocket.accept(), deepgram.listen.live.v("1"), the four dg_socket.on
\* registrations and dg_socket.start(...)
\* A recognition connection that is one module-level object.
DgSocketShared(s) == 1

\* dg_socket (line 103): a local variable of audio_stream, so each
\* invocation s works on the connection it created itself.
dg_socket(s) == s

Connect(s) ==
    /\ s \in live
    /\ pc[s] = "idle"
    /\ pc' = [pc EXCEPT ![s] = "recv"]
    /\ leg' = [leg EXCEPT ![s] = "open"]
    /\ dg' = [dg EXCEPT ![dg_socket(s)] = "started"]
    /\ UNCHANGED << codec, helper, dgErrors, live, finishes, dgSent, rxAudio, lastMsg, nRecv, turns, out >>

HandlerExitNoFinally(how) ==
    [pc |-> IF how = "raise" THEN "crashed" ELSE "done",
     finish |-> IF how = "raise" THEN 0 ELSE 1]

\* How the handler leaves the try statement: "break" (stop frame) and
\* "disconnect" (WebSocketDisconnect caught) return normally, "raise" is any
\* other exception and propagates; the finally clause runs
\* dg_socket.finish() on every path.
HandlerExit(how) ==
    [pc |-> IF how = "raise" THEN "crashed" ELSE "done",
     finish |-> 1]

\* The handler is left: finally clause, then the ASGI server closes the
\* connection of the returned application.
Leave(s, how) ==
    /\ pc' = [pc EXCEPT ![s] = HandlerExit(how).pc]
    /\ finishes' = [finishes EXCEPT ![dg_socket(s)] = @ + HandlerExit(how).finish]
    /\ dg' = [dg EXCEPT ![dg_socket(s)] =
                 IF HandlerExit(how).finish > 0 THEN "finished" ELSE @]
    /\ leg' = [leg EXCEPT ![s] = "closed"]

\* websocket.receive() returns msg; the loop body runs up to its next
\* suspension point (the sleep) or leaves the loop.
Receive(s, msg) ==
    /\ pc[s] = "recv"
    /\ leg[s] = "open"
    /\ Inputs < Budget
    /\ nRecv' = [nRecv EXCEPT ![s] = @ + 1]
    /\ lastMsg' = [lastMsg EXCEPT ![s] = KindOf(msg)]
    /\ rxAudio' = [rxAudio EXCEPT ![s] = @ \o AudioOf(msg)]
    /\ dgSent' = [dgSent EXCEPT ![dg_socket(s)] = @ \o LoopBody(msg).sends]
    /\ IF LoopBody(msg).exit = "continue"
       THEN /\ pc' = [pc EXCEPT ![s] = "sleep"]
            /\ UNCHANGED << leg, dg, finishes >>
       ELSE Leave(s, LoopBody(msg).exit)
    /\ UNCHANGED << codec, helper, dgErrors, live, turns, out >>

RecvMedia(s) == \E f \in GoodMedia : Receive(s, TextMsg(f))
RecvBinary(s) == \E b \in InAudio : Receive(s, BytesMsg(b))
RecvStop(s) == Receive(s, TextMsg(StopFrame))
RecvOther(s) == Receive(s, TextMsg(OtherFrame))
RecvMalformed(s) == \E f \in MalformedFrames : Receive(s, TextMsg(f))

\* The caller hangs up.  websocket.receive either raises
\* WebSocketDisconnect (caught at line 174) or returns the
\* websocket.disconnect message, which carries neither text nor bytes.
RecvDisconnect(s, raises) ==
    /\ pc[s] = "recv"
    /\ leg[s] = "open"
    /\ Inputs < Budget
    /\ nRecv' = [nRecv EXCEPT ![s] = @ + 1]
    /\ lastMsg' = [lastMsg EXCEPT ![s] = "disconnect"]
    /\ IF raises
       THEN /\ Leave(s, "disconnect")
            /\ UNCHANGED << dgSent, rxAudio >>
       ELSE /\ rxAudio' = [rxAudio EXCEPT ![s] = @ \o AudioOf(DisconnectMsg)]
            /\ dgSent' = [dgSent EXCEPT ![dg_socket(s)] = @ \o LoopBody(DisconnectMsg).sends]
            /\ pc' = [pc EXCEPT ![s] = "sleep"]
            /\ leg' = [leg EXCEPT ![s] = "peer_gone"]
            /\ UNCHANGED << dg, finishes >>
    /\ UNCHANGED << codec, helper, dgErrors, live, turns, out >>

\* websocket.receive() called again after the disconnect message was
\* returned: RuntimeError, which the except clause does not catch.
RecvAfterDisconnect(s) ==
    /\ pc[s] = "recv"
    /\ leg[s] = "peer_gone"
    /\ Leave(s, "raise")
    /\ UNCHANGED << codec, helper, dgErrors, live, dgSent, rxAudio, lastMsg, nRecv, turns, out >>

\* await asyncio.sleep(0.01) is over
Wake(s) ==
    /\ pc[s] = "sleep"
    /\ pc' = [pc EXCEPT ![s] = "recv"]
    /\ UNCHANGED << codec, helper, dgErrors, live, leg, dg, finishes, dgSent, rxAudio, lastMsg, nRecv, turns, out >>

(* ------------------------ recognition engine events ------------------- *)
OnErrorCloses(st) ==
    [st EXCEPT !.pc = "done", !.dg = "finished", !.finishes = @ + 1, !.leg = "closed"]

\* The handler registered for LiveTranscriptionEvents.Error (line 150): a
\* lambda that prints; st is what it could reach of the session.
OnErrorEffect(st) == st

\* The recognition engine reports a connection-level error.
OnError(s) ==
    /\ dg[s] = "started"
    /\ Inputs < Budget
    /\ dgErrors' = [dgErrors EXCEPT ![s] = @ + 1]
    /\ LET st == OnErrorEffect([pc |-> pc[s], dg |-> dg[s],
                                finishes |-> finishes[s], leg |-> leg[s]])
       IN  /\ pc' = [pc EXCEPT ![s] = st.pc]
           /\ dg' = [dg EXCEPT ![s] = st.dg]
           /\ finishes' = [finishes EXCEPT ![s] = st.finishes]
           /\ leg' = [leg EXCEPT ![s] = st.leg]
    /\ UNCHANGED << codec, helper, live, dgSent, rxAudio, lastMsg, nRecv, turns, out >>

(* ---------------------------- on_transcript ---------------------------- *)
\* A Transcript event of the recognition engine: the number of
\* alternatives, the top alternative's text and the is_final attribute.
Events ==
    [alts : {0, 1}, transcript : Transcripts, is_final : BOOLEAN]

\* Where the SDK runs the handler: on the thread of the running event loop,
\* or on a thread of its own, where asyncio.get_event_loop() raises
\* RuntimeError.  (No thread has a current loop that is not running, so the
\* run_until_complete branch is never taken.)
Contexts == {"loop", "thread"}

SchedulesAnyText(ev, ctx) ==
    /\ ev.alts > 0
    /\ ev.transcript # <<>>
    /\ ctx = "loop"

\* on_transcript reaches asyncio.create_task (no exception, condition true)
Schedules(ev, ctx) ==
    /\ ev.alts > 0
    /\ ev.transcript # <<>>
    /\ ev.is_final
    /\ ctx = "loop"

NewTurn(ev) ==
    [pc |-> "scheduled", final |-> ev.is_final, heard |-> ev.transcript,
     text |-> <<>>, gen |-> "none", status |-> 0, reply |-> NoReply,
     spoke |-> NoReply, made |-> <<>>, naps |-> 0, quiet |-> 0, err |-> "none"]

OnTranscript(s, ev, ctx) ==
    /\ dg[s] = "started"
    /\ Inputs < Budget
    /\ turns' = [turns EXCEPT ![s] =
                    IF Schedules(ev, ctx) THEN Append(@, NewTurn(ev)) ELSE @]
    /\ UNCHANGED << codec, helper, dgErrors, live, pc, leg, dg, finishes, dgSent, rxAudio, lastMsg, nRecv, out >>

(* -------------------------- process_transcript ------------------------- *)
\* Lines 107-114: strip, early return, generation.  "synth" is the point
\* before the try statement (no suspension there); an exception of the
\* generation call leaves the coroutine ("raised").
Begin(rec, up) ==
    LET text == Strip(rec.heard) IN
    IF text = <<>> THEN [rec EXCEPT !.pc = "done"]
    ELSE LET g == generate_ai_reply(text, up) IN
        IF g.raised
        THEN [rec EXCEPT !.pc = "raised", !.text = text, !.gen = up.kind,
                         !.status = up.status, !.err = "gen"]
        ELSE [rec EXCEPT !.pc = "synth", !.text = text, !.gen = up.kind,
                         !.status = up.status, !.reply = g.value]

IterateTwice(rec0, syn, legOpen) ==
    LET rec == [rec0 EXCEPT !.spoke = rec0.reply]
        c == ChunkOf(Len(rec0.made) + 1)
    IN
    IF syn = "error"
    THEN [rec |-> [rec EXCEPT !.pc = "done", !.err = "synth"], frames |-> <<>>]
    ELSE IF syn = "end"
    THEN [rec |-> [rec EXCEPT !.pc = "quiet", !.quiet = WordCount(rec.reply)],
          frames |-> <<>>]
    ELSE IF legOpen
    THEN [rec |-> [rec EXCEPT !.pc = "pacing", !.made = Append(@, c), !.naps = @ + 1],
          frames |-> << B64Encode(c), B64Encode(c) >>]
    ELSE [rec |-> [rec EXCEPT !.pc = "done", !.made = Append(@, c), !.err = "send"],
          frames |-> <<>>]

\* Lines 117-130, from the stream call or the end of a pacing sleep to the
\* next suspension point: the stream raises (caught at line 129), ends (the
\* quiet sleep of line 126 starts) or yields a chunk, which is encoded and
\* sent, followed by the pacing sleep; a send on a leg that is not open
\* raises (caught at line 129).  "spoke" is the text the stream was asked
\* for at line 119.
Iterate(rec0, syn, legOpen) ==
    LET rec == [rec0 EXCEPT !.spoke = rec0.reply]
        c == ChunkOf(Len(rec0.made) + 1)
    IN
    IF syn = "error"
    THEN [rec |-> [rec EXCEPT !.pc = "done", !.err = "synth"], frames |-> <<>>]
    ELSE IF syn = "end"
    THEN [rec |-> [rec EXCEPT !.pc = "quiet", !.quiet = WordCount(rec.reply)],
          frames |-> <<>>]
    ELSE IF legOpen
    THEN [rec |-> [rec EXCEPT !.pc = "pacing", !.made = Append(@, c), !.naps = @ + 1],
          frames |-> << B64Encode(c) >>]
    ELSE [rec |-> [rec EXCEPT !.pc = "done", !.made = Append(@, c), !.err = "send"],
          frames |-> <<>>]

Stamp(t, frames) == [i \in 1..Len(frames) |-> [turn |-> t, payload |-> frames[i]]]

CanYield(s, syn) == syn = "chunk" => Inputs < Budget

\* The task's first run, up to its first suspension point.
TurnStart(s, t, up, syn) ==
    /\ t \in 1..Len(turns[s])
    /\ turns[s][t].pc = "scheduled"
    /\ CanYield(s, syn)
    /\ LET b == Begin(turns[s][t], up)
           it == Iterate(b, syn, leg[s] = "open")
       IN  IF b.pc = "synth"
           THEN /\ turns' = [turns EXCEPT ![s][t] = it.rec]
                /\ out' = [out EXCEPT ![s] = @ \o Stamp(t, it.frames)]
           ELSE /\ turns' = [turns EXCEPT ![s][t] = b]
                /\ out' = out
    /\ UNCHANGED << codec, helper, dgErrors, live, pc, leg, dg, finishes, dgSent, rxAudio, lastMsg, nRecv >>

\* await asyncio.sleep(0.02) is over: next iteration of the for loop.
TurnResume(s, t, syn) ==
    /\ t \in 1..Len(turns[s])
    /\ turns[s][t].pc = "pacing"
    /\ CanYield(s, syn)
    /\ LET it == Iterate(turns[s][t], syn, leg[s] = "open")
       IN  /\ turns' = [turns EXCEPT ![s][t] = it.rec]
           /\ out' = [out EXCEPT ![s] = @ \o Stamp(t, it.frames)]
    /\ UNCHANGED << codec, helper, dgErrors, live, pc, leg, dg, finishes, dgSent, rxAudio, lastMsg, nRecv >>

\* The quiet sleep of line 126 is over: line 128, the coroutine returns.
TurnFinish(s, t) ==
    /\ t \in 1..Len(turns[s])
    /\ turns[s][t].pc = "quiet"
    /\ turns' = [turns EXCEPT ![s][t].pc = "done"]
    /\ UNCHANGED << codec, helper, dgErrors, live, pc, leg, dg, finishes, dgSent, rxAudio, lastMsg, nRecv, out >>

(* ---------------------------- specification ---------------------------- *)
Next ==
    \E s \in Sessions :
        \/ Connect(s)
        \/ RecvMedia(s)
        \/ RecvBinary(s)
        \/ RecvStop(s)
        \/ RecvOther(s)
        \/ RecvMalformed(s)
        \/ \E raises \in BOOLEAN : RecvDisconnect(s, raises)
        \/ RecvAfterDisconnect(s)
        \/ Wake(s)
        \/ OnError(s)
        \/ \E ev \in Events, ctx \in Contexts : OnTranscript(s, ev, ctx)
        \/ \E t \in 1..MaxInputs, up \in Upstream, syn \in SynthSteps : TurnStart(s, t, up, syn)
        \/ \E t \in 1..MaxInputs, syn \in SynthSteps : TurnResume(s, t, syn)
        \/ \E t \in 1..MaxInputs : TurnFinish(s, t)

Spec == Init /\ [][Next]_vars

\* Two calls at the same time: the telephony side opens /audio twice and
\* the event loop interleaves the two invocations of audio_stream.
InitTwo == InitFor({1, 2})

SpecTwo == InitTwo /\ [][Next]_vars

(* ------------------- payload codec (decode, encode) -------------------- *)
\* The characters a payload is built from: digits whose low four bits are
\* zero (0), whose low two bits are zero (4), and others (1, 63), the pad
\* and a character outside the alphabet.
Symbols == {0, 1, 4, 63, Pad, Junk}

Payloads == UNION { [1..n -> Symbols] : n \in 0..MaxPayloadLen }

\* The object handed to websocket.send_json at line 122.
OutFrame(audio) == Media(B64Encode(audio))

InitCodec ==
    /\ SessionsInit({})
    /\ helper = HelperIdle
    /\ codec \in { [pc |-> "frame", payload |-> p, audio |-> <<>>, frame |-> NotJson] :
                    p \in Payloads }

\* Lines 161-165 on a textual media frame that carries codec.payload.
CodecDecode ==
    /\ codec.pc = "frame"
    /\ LET r == LoopBody(TextMsg(Media(codec.payload))) IN
       codec' = IF r.exit = "raise"
                THEN [codec EXCEPT !.pc = "failed"]
                ELSE [codec EXCEPT !.pc = "decoded", !.audio = r.sends[1]]
    /\ UNCHANGED << helper, dgErrors, live, pc, leg, dg, finishes, dgSent, rxAudio,
                    lastMsg, nRecv, turns, out >>

\* Lines 121-122 on the buffer the decode produced.
CodecEncode ==
    /\ codec.pc = "decoded"
    /\ codec' = [codec EXCEPT !.pc = "encoded", !.frame = OutFrame(codec.audio)]
    /\ UNCHANGED << helper, dgErrors, live, pc, leg, dg, finishes, dgSent, rxAudio,
                    lastMsg, nRecv, turns, out >>

NextCodec == CodecDecode \/ CodecEncode

SpecCodec == InitCodec /\ [][NextCodec]_vars

(* ------------- whole-buffer helper (module level, 83-94, 184-198) ------ *)
RECURSIVE Flatten(_)
Flatten(chunks) ==
    IF chunks = <<>> THEN <<>> ELSE Head(chunks) \o Flatten(Tail(chunks))

\* synthesize_tts: the stream yields chunks and then either ends or raises;
\* the except of line 92 turns a raise into an empty result.
synthesize_tts(chunks, fails) ==
    IF fails THEN <<>> ELSE Flatten(chunks)

\* The helper without its try/except: what is raised escapes.
ProcessTranscriptNoTry(text, up, chunks, fails, legOpen) ==
    LET gen == generate_ai_reply(text, up)
        audio_bytes == synthesize_tts(chunks, fails)
    IN
    IF gen.raised
    THEN [reply |-> NoReply, audio |-> <<>>, frames |-> <<>>, escaped |-> TRUE]
    ELSE IF audio_bytes = <<>>
    THEN [reply |-> gen.value, audio |-> <<>>, frames |-> <<>>, escaped |-> FALSE]
    ELSE IF legOpen
    THEN [reply |-> gen.value, audio |-> audio_bytes,
          frames |-> << OutFrame(audio_bytes) >>, escaped |-> FALSE]
    ELSE [reply |-> gen.value, audio |-> audio_bytes, frames |-> <<>>, escaped |-> TRUE]

\* process_transcript(text, websocket) of lines 184-198: generation (an
\* exception of requests.post is caught at line 197), synthesis, and one
\* send_json of the whole buffer when it is not empty (a send on a leg that
\* is not open raises, caught at line 197).
process_transcript(text, up, chunks, fails, legOpen) ==
    LET gen == generate_ai_reply(text, up)
        audio_bytes == synthesize_tts(chunks, fails)
    IN
    IF gen.raised
    THEN [reply |-> NoReply, audio |-> <<>>, frames |-> <<>>, escaped |-> FALSE]
    ELSE IF audio_bytes = <<>>
    THEN [reply |-> gen.value, audio |-> <<>>, frames |-> <<>>, escaped |-> FALSE]
    ELSE IF legOpen
    THEN [reply |-> gen.value, audio |-> audio_bytes,
          frames |-> << OutFrame(audio_bytes) >>, escaped |-> FALSE]
    ELSE [reply |-> gen.value, audio |-> audio_bytes, frames |-> <<>>, escaped |-> FALSE]

\* One invocation: a text, what the upstream does, the chunks the speak
\* stream yields and whether it raises after them, and whether the leg the
\* caller passes is open.
InitHelper ==
    /\ SessionsInit({})
    /\ codec = CodecIdle
    /\ helper \in
          { [HelperIdle EXCEPT !.pc = "call", !.text = t, !.up = u,
                               !.chunks = [k \in 1..n |-> ChunkOf(k)],
                               !.fails = f, !.legOpen = o] :
              t \in Transcripts, u \in Upstream, n \in 0..MaxInputs,
              f \in BOOLEAN, o \in BOOLEAN }

HelperRun ==
    /\ helper.pc = "call"
    /\ LET r == process_transcript(helper.text, helper.up, helper.chunks,
                                   helper.fails, helper.legOpen) IN
       helper' = [helper EXCEPT !.pc = "returned", !.reply = r.reply,
                                !.audio = r.audio, !.frames = r.frames,
                                !.escaped = r.escaped]
    /\ UNCHANGED << codec, dgErrors, live, pc, leg, dg, finishes, dgSent, rxAudio,
                    lastMsg, nRecv, turns, out >>

NextHelper == HelperRun

SpecHelper == InitHelper /\ [][NextHelper]_vars

(* ------------------------------- claims -------------------------------- *)
Turn(s, t) == turns[s][t]
TurnIds(s) == DOMAIN turns[s]

\* the frames a turn has put on the call leg, in the order of the leg
FramesOf(s, t) == SelectSeq(out[s], LAMBDA f : f.turn = t)

NotInterleaved(fs) ==
    \A i, j, k \in DOMAIN fs :
        (i < j /\ j < k /\ fs[i].turn = fs[k].turn) => fs[j].turn = fs[i].turn

\* C1: in every reachable state of every session at most one turn is in
\* flight (past its generation, not yet finished), and the frames of two
\* turns are never interleaved on the call leg.
C1_OneTurnAtATime ==
    \A s \in Sessions :
        /\ Cardinality({t \in TurnIds(s) : InFlight(Turn(s, t))}) <= 1
        /\ NotInterleaved(out[s])

\* C2: once the session is CLOSED no step of any of its turns runs any more
\* (no generation, synthesis, send or pacing step changes a turn or the
\* leg), so every turn was cancelled when the session closed.
C2_TurnsCancelledOnClose ==
    [][\A s \in Sessions :
          Closed(s) => (turns'[s] = turns[s] /\ out'[s] = out[s])]_vars

\* C3: the recognition connection of a started session is finished exactly
\* once: never while the handler runs, never twice, and exactly once when
\* the handler has been left, on whichever path (stop frame, disconnect,
\* exception in the receive loop).
C3_FinishExactlyOnce ==
    \A s \in Sessions :
        /\ finishes[s] <= 1
        /\ Running(s) => (finishes[s] = 0 /\ dg[s] = "started")
        /\ Closed(s) => (finishes[s] = 1 /\ dg[s] = "finished")
        /\ pc[s] = "idle" => (finishes[s] = 0 /\ dg[s] = "new")

C3_Witness ==
    \E s \in Sessions :
        pc[s] = "crashed" /\ lastMsg[s] = "malformed" /\ finishes[s] = 1

GenFailed(r) ==
    \/ r.gen \in {"timeout", "connerror"}
    \/ r.gen = "response" /\ r.status \notin 200..299

\* C4: a generation call that times out, fails at the network level or gets
\* a non-2xx status returns exactly the fallback apology, and no exception
\* leaves the turn.
C4_GenerationFailsOpen ==
    \A s \in Sessions : \A t \in TurnIds(s) :
        GenFailed(Turn(s, t)) =>
            (Turn(s, t).reply = Fallback /\ Turn(s, t).pc # "raised")

\* C5: after a malformed textual frame (not JSON, or a media envelope
\* without a decodable payload) the receive loop is still running and the
\* recognition connection is still open.
C5_MalformedFrameDropped ==
    \A s \in Sessions :
        lastMsg[s] = "malformed" =>
            (Running(s) /\ finishes[s] = 0 /\ dg[s] = "started")

\* C6: the generator is invoked only for a final transcript whose text is
\* non-empty after stripping, and with that stripped text; a turn task made
\* for anything else never invokes it, never gets in flight and sends no
\* frame; every frame on the leg belongs to a turn that invoked the
\* generator, so without such a transcript nothing is sent.
C6_GeneratorOnlyOnFinalNonEmpty ==
    \A s \in Sessions :
        /\ \A t \in TurnIds(s) :
              /\ Turn(s, t).gen # "none" =>
                    /\ Turn(s, t).final
                    /\ Strip(Turn(s, t).heard) # <<>>
                    /\ Turn(s, t).text = Strip(Turn(s, t).heard)
              /\ (~Turn(s, t).final \/ Strip(Turn(s, t).heard) = <<>>) =>
                    /\ Turn(s, t).gen = "none"
                    /\ ~InFlight(Turn(s, t))
                    /\ FramesOf(s, t) = <<>>
        /\ \A i \in DOMAIN out[s] :
              /\ out[s][i].turn \in TurnIds(s)
              /\ Turn(s, out[s][i].turn).gen # "none"

C6_Witness ==
    \E s \in Sessions : \E t, u \in TurnIds(s) :
        /\ Turn(s, t).heard = << " " >>
        /\ Turn(s, t).pc = "done"
        /\ Turn(s, u).gen = "response"
        /\ dgSent[s] # <<>>

\* C7: the frames of one turn on the call leg are the chunks the synthesis
\* engine yielded, in the order it yielded them, each once, none skipped
\* (the run of frames stops early only when a send fails), and every
\* transmission is followed by its pacing sleep.
C7_ChunksInOrder ==
    \A s \in Sessions : \A t \in TurnIds(s) :
        LET r == Turn(s, t)
            fs == FramesOf(s, t)
        IN  /\ Len(fs) <= Len(r.made)
            /\ \A i \in 1..Len(fs) :
                  B64Decode(fs[i].payload) = [ok |-> TRUE, bytes |-> r.made[i]]
            /\ r.err # "send" => Len(fs) = Len(r.made)
            /\ r.naps = Len(fs)

C7_Witness ==
    \E s \in Sessions : \E t \in TurnIds(s) :
        /\ Turn(s, t).pc = "done"
        /\ Turn(s, t).err = "none"
        /\ Len(FramesOf(s, t)) = 3

\* C8: a turn whose synthesis failed has sent no frame at all, and it has
\* ended (the session is back to listening).
C8_FailedSynthesisSendsNothing ==
    \A s \in Sessions : \A t \in TurnIds(s) :
        Turn(s, t).err = "synth" =>
            (FramesOf(s, t) = <<>> /\ Ended(Turn(s, t)))

\* C9: a session is CLOSED only by a stop frame or a disconnect; in
\* particular, while some turn's generation or synthesis has failed and
\* neither of the two has been received, the receive loop runs and the
\* recognition connection is open.
C9_OnlyStopOrDisconnectCloses ==
    \A s \in Sessions :
        /\ Closed(s) => lastMsg[s] \in {"stop", "disconnect"}
        /\ ( /\ \E t \in TurnIds(s) : Turn(s, t).err \in {"gen", "synth"}
             /\ lastMsg[s] \notin {"stop", "disconnect"} )
           => (Running(s) /\ dg[s] = "started" /\ finishes[s] = 0)

\* The part of C9 that holds: whatever the turns do, a session is closed
\* only by a message of the call leg.
ClosedOnlyByTheLeg ==
    \A s \in Sessions :
        Closed(s) => lastMsg[s] \in {"stop", "disconnect", "malformed"}

\* C10: the buffers passed to the recognition socket are exactly the audio
\* of the frames received (media envelopes decoded, binary frames as they
\* are), each once, in arrival order.
C10_AudioForwardedVerbatim ==
    \A s \in Sessions : dgSent[s] = rxAudio[s]

C10_Witness ==
    \E s \in Sessions :
        /\ Len(dgSent[s]) = 2
        /\ dgSent[s][1] # dgSent[s][2]
        /\ lastMsg[s] = "binary"
        /\ Closed(s) = FALSE

\* C11: a step that receives an envelope whose event is neither media nor
\* stop sends nothing to the recognition socket, sends no outbound frame,
\* leaves the turns, the recognition connection and the leg as they are,
\* and ends at the loop's sleep, from where the next frame is received.
C11_UnknownEventDropped ==
    [][\A s \in Sessions :
          (nRecv'[s] = nRecv[s] + 1 /\ lastMsg'[s] = "mark") =>
              /\ dgSent'[s] = dgSent[s]
              /\ out'[s] = out[s]
              /\ turns'[s] = turns[s]
              /\ dg'[s] = "started"
              /\ finishes'[s] = 0
              /\ leg'[s] = "open"
              /\ pc'[s] = "sleep"]_vars

C11_Witness ==
    \E s \in Sessions :
        /\ lastMsg[s] = "mark"
        /\ pc[s] = "recv"
        /\ dg[s] = "started"
        /\ \E t \in TurnIds(s) : InFlight(Turn(s, t))

\* C17: a buffer is passed to the recognition socket, and a message is
\* received, only by a handler at its receive point whose recognition
\* stream is started and not finished; once a stop frame or a disconnect
\* has been received nothing more is received or forwarded.
C17_SendOnlyWhileStarted ==
    [][\A s \in Sessions :
          /\ (dgSent'[s] # dgSent[s] \/ nRecv'[s] # nRecv[s]) =>
                (dg[s] = "started" /\ finishes[s] = 0 /\ pc[s] = "recv")
          /\ lastMsg[s] \in {"stop", "disconnect"} =>
                (nRecv'[s] = nRecv[s] /\ dgSent'[s] = dgSent[s])]_vars

C17_Witness ==
    \E s \in Sessions :
        /\ Closed(s)
        /\ lastMsg[s] = "stop"
        /\ Len(dgSent[s]) >= 2
        /\ dg[s] = "finished"

\* C13: every turn that invoked the generator has handed the text it
\* obtained to speech synthesis: the reply when generation succeeded, the
\* fallback apology when it failed.
C13_GenerationAlwaysSynthesized ==
    \A s \in Sessions : \A t \in TurnIds(s) :
        Turn(s, t).gen # "none" =>
            /\ Turn(s, t).spoke # NoReply
            /\ Turn(s, t).spoke = Turn(s, t).reply
            /\ GenFailed(Turn(s, t)) => Turn(s, t).spoke = Fallback

\* C14: no turn of a session takes its generation step while another turn
\* of that session is between its first chunk and the end of its quiet
\* period.
C14_QuietPeriodBlocksNextTurn ==
    [][\A s \in Sessions : \A t \in TurnIds(s) :
          (turns[s][t].gen = "none" /\ turns'[s][t].gen # "none") =>
              \A u \in TurnIds(s) \ {t} :
                  ~(InFlight(turns[s][u]) /\ FramesOf(s, u) # <<>>)]_vars

\* C15: a step in which the engine's error callback runs leaves the
\* handler's position, the call leg, the recognition connection (no finish)
\* and the turns as they are.
C15_ErrorEventKeepsSession ==
    [][\A s \in Sessions :
          dgErrors'[s] # dgErrors[s] =>
              /\ pc'[s] = pc[s]
              /\ leg'[s] = leg[s]
              /\ dg'[s] = dg[s]
              /\ finishes'[s] = finishes[s]
              /\ turns'[s] = turns[s]
              /\ out'[s] = out[s]]_vars

C15_Witness ==
    \E s \in Sessions :
        /\ dgErrors[s] > 0
        /\ pc[s] = "sleep"
        /\ lastMsg[s] = "media"
        /\ Len(dgSent[s]) = nRecv[s]
        /\ Load(s) = MaxInputs

\* ---- C12 ----
\* The text b64encode produces: whole quads of alphabet characters, with one
\* or two pads at the very end only, and the bits the pads leave unused zero.
Canonical(p) ==
    LET n == Len(p) IN
    /\ n % 4 = 0
    /\ \A i \in 1..n : p[i] # Junk
    /\ \A i \in 1..n : p[i] = Pad => i >= n - 1
    /\ n > 0 /\ p[n - 1] = Pad => p[n] = Pad /\ p[n - 2] % 16 = 0
    /\ n > 0 /\ p[n] = Pad /\ p[n - 1] # Pad => p[n - 1] % 4 = 0

\* C12 as stated: for every inbound media envelope, re-encoding the decoded
\* buffer gives back the envelope's payload in an outbound media envelope.
C12_Original ==
    codec.pc = "encoded" => codec.frame = Media(codec.payload)

\* C12 as amended: a payload in canonical base64 form is decoded without
\* error and re-encoding the decoded buffer gives back exactly that payload;
\* for every payload the decoder accepts the re-encoded frame has the
\* outbound media envelope shape, carries a canonical text that decodes to
\* the same buffer, and equals the inbound payload only when that payload
\* was canonical.
C12_RoundTripOnCanonical ==
    /\ Canonical(codec.payload) => codec.pc # "failed"
    /\ codec.pc = "encoded" =>
          /\ codec.frame.json /\ codec.frame.event = "media" /\ codec.frame.haspayload
          /\ Canonical(codec.frame.payload)
          /\ B64Decode(codec.frame.payload) = [ok |-> TRUE, bytes |-> codec.audio]
          /\ (codec.frame.payload = codec.payload) <=> Canonical(codec.payload)

C12_Witness ==
    /\ codec.pc = "encoded"
    /\ Canonical(codec.payload)
    /\ Len(codec.payload) = 4
    /\ codec.payload[4] = Pad /\ codec.payload[3] # Pad
    /\ codec.frame = Media(codec.payload)

\* ---- C18 ----
RECURSIVE TotalLen(_)
TotalLen(chunks) ==
    IF chunks = <<>> THEN 0 ELSE Len(Head(chunks)) + TotalLen(Tail(chunks))

\* C18 as stated: the helper sends exactly one frame whenever synthesis
\* returned a non-empty buffer, none when it failed or returned nothing, and
\* lets no exception escape.
C18_Original ==
    helper.pc = "returned" =>
        /\ ~helper.escaped
        /\ helper.audio # <<>> => Len(helper.frames) = 1
        /\ helper.audio = <<>> => helper.frames = <<>>

\* C18 as amended: the helper sends at most one frame per invocation; exactly
\* one, a media envelope whose payload decodes to the whole synthesized
\* buffer, when synthesis returned a non-empty buffer and the send did not
\* raise; none when generation raised, synthesis failed or returned an empty
\* buffer, or the send raised; and no exception escapes.
C18_WholeBufferOneFrame ==
    helper.pc = "returned" =>
        /\ ~helper.escaped
        /\ Len(helper.frames) <= 1
        /\ helper.fails \/ helper.up.kind # "response" => helper.audio = <<>>
        /\ helper.audio = <<>> \/ ~helper.legOpen => helper.frames = <<>>
        /\ helper.audio # <<>> =>
              LET n == Len(helper.chunks) IN
              /\ Len(helper.audio) = TotalLen(helper.chunks)
              /\ SubSeq(helper.audio, 1, Len(helper.chunks[1])) = helper.chunks[1]
              /\ SubSeq(helper.audio, Len(helper.audio) - Len(helper.chunks[n]) + 1,
                        Len(helper.audio)) = helper.chunks[n]
        /\ helper.audio # <<>> /\ helper.legOpen =>
              /\ Len(helper.frames) = 1
              /\ helper.frames[1].json /\ helper.frames[1].event = "media"
              /\ helper.frames[1].haspayload
              /\ B64Decode(helper.frames[1].payload)
                    = [ok |-> TRUE, bytes |-> helper.audio]

C18_Witness ==
    /\ helper.pc = "returned"
    /\ Len(helper.chunks) >= 2
    /\ helper.legOpen
    /\ Len(helper.frames) = 1
    /\ Len(helper.audio) > Len(helper.chunks[1])

\* ---- C16 ----
\* What session s owns.
Recognition(s) == << dg[s], finishes[s], dgSent[s] >>
CallLeg(s) == << leg[s], out[s] >>

\* C16: with two sessions running side by side nothing is shared: a step of
\* a turn of one session sends on no other session's call leg, a frame one
\* session receives is forwarded to no other session's recognition
\* connection (each connection got exactly the audio its own session
\* received), and a session that closes leaves the other's loop, call leg
\* and recognition connection as they were, with no finish invoked on it.
C16_SessionsShareNothing ==
    [][ \A s \in Sessions : \A o \in Sessions \ {s} :
          /\ turns'[s] # turns[s] => CallLeg(o)' = CallLeg(o)
          /\ nRecv'[s] # nRecv[s] => Recognition(o)' = Recognition(o)
          /\ pc'[s] # pc[s] =>
                /\ pc'[o] = pc[o] /\ turns'[o] = turns[o]
                /\ CallLeg(o)' = CallLeg(o)
                /\ Recognition(o)' = Recognition(o)
          /\ dgSent'[s] = rxAudio'[s]
          /\ \A i \in 1..Len(out'[s]) : out'[s][i].turn \in TurnIds(s)' ]_vars

\* Session 2 was closed by a stop frame while session 1, whose turn has put
\* a frame on its own leg, is still running on a started connection.
C16_Witness ==
    /\ live = {1, 2}
    /\ pc[2] = "done" /\ lastMsg[2] = "stop" /\ dg[2] = "finished"
    /\ Running(1) /\ dg[1] = "started" /\ finishes[1] = 0 /\ leg[1] = "open"
    /\ Len(out[1]) > 0 /\ out[2] = <<>>

====
